---------------------------- MODULE Spec2Model ----------------------------
(***************************************************************************)
(* A model of serde_json_borrow's value.rs: the Number union and its       *)
(* accessors, equality and hashing, Value::get navigation, the Debug       *)
(* rendering, and the conversion into serde_json's owned Value.            *)
(*                                                                         *)
(* 64-bit quantities do not fit TLC's integers.  A u64, and the bit        *)
(* pattern of an f64, is a tuple of four 16-bit limbs, most significant    *)
(* first.  An i64 is its mathematical value: a sign and a magnitude.       *)
(***************************************************************************)
EXTENDS Integers, Sequences, FiniteSets, TLC

VARIABLES
    a,      \* first Number slot: the Number, the conversion that made it, its input
    b,      \* second Number slot
    obs,    \* what the last method call on the slots returned
    doc,    \* the Value tree built by the deserializer
    cur,    \* the reference the get chain has reached
    nav,    \* the last get call: receiver, index and returned reference
    hit,    \* a get of this chain has returned the NULL sentinel
    preserve_order  \* serde_json is built with its preserve_order feature

numVars == <<a, b, obs>>
navVars == <<doc, cur, nav, hit>>
vars == <<a, b, obs, doc, cur, nav, hit, preserve_order>>

-----------------------------------------------------------------------------
(* Limb arithmetic.                                                        *)

Base == 2 ^ 16
HalfBase == 2 ^ 15

ZeroL == <<0, 0, 0, 0>>

LLt(x, y) == \E i \in 1..4 : /\ x[i] < y[i]
                             /\ \A j \in 1..(i - 1) : x[j] = y[j]

LLe(x, y) == x = y \/ LLt(x, y)

\* Bitwise complement, increment modulo 2^64, two's complement negation.
NotL(x) == [i \in 1..4 |-> Base - 1 - x[i]]

IncL(x) ==
    LET c4 == x[4] + 1
        c3 == x[3] + (c4 \div Base)
        c2 == x[2] + (c3 \div Base)
        c1 == x[1] + (c2 \div Base)
    IN  <<c1 % Base, c2 % Base, c3 % Base, c4 % Base>>

NegL(x) == IncL(NotL(x))

\* An i64 as a mathematical integer: canonical sign and magnitude.
SInt(neg, mag) == [neg |-> neg /\ mag # ZeroL, mag |-> mag]

\* `x as i64` of a u64 x: the bit pattern read as two's complement.
U64AsI64(x) == IF x[1] >= HalfBase THEN SInt(TRUE, NegL(x)) ELSE SInt(FALSE, x)

\* `i as u64` of an i64 i: its two's complement bit pattern.
I64AsU64(i) == IF i.neg THEN NegL(i.mag) ELSE i.mag

\* i64::max_value() as u64
I64Max == <<HalfBase - 1, Base - 1, Base - 1, Base - 1>>

\* i < 0 on an i64
I64Negative(i) == i.neg


-----------------------------------------------------------------------------
(* f64: the IEEE 754 binary64 reading of a bit pattern.                    *)

F64Exp(f) == (f[1] % HalfBase) \div 16
F64Mant(f) == <<f[1] % 16, f[2], f[3], f[4]>>
F64SignBit(f) == f[1] >= HalfBase

F64IsNan(f) == F64Exp(f) = 2047 /\ F64Mant(f) # ZeroL
F64IsFinite(f) == F64Exp(f) # 2047
F64IsZero(f) == F64Exp(f) = 0 /\ F64Mant(f) = ZeroL

\* f64's PartialEq: NaN equals nothing, the two zeros are equal.
F64Eq(f, g) ==
    /\ ~F64IsNan(f)
    /\ ~F64IsNan(g)
    /\ (f = g \/ (F64IsZero(f) /\ F64IsZero(g)))

\* 0.0f64.to_bits()
PosZeroBits == ZeroL
\* (-0.0f64).to_bits()
NegZeroBits == <<HalfBase, 0, 0, 0>>

-----------------------------------------------------------------------------
(* Option, Number and its private union N.                                 *)

Some(x) == [some |-> TRUE, val |-> x]
None == [some |-> FALSE]

PosInt(u) == [v |-> "PosInt", u |-> u]
NegInt(i) == [v |-> "NegInt", i |-> i]
Float(f) == [v |-> "Float", f |-> f]

Number(n) == [n |-> n]

as_u64(self) ==
    IF self.n.v = "PosInt" THEN Some(self.n.u) ELSE None

as_i64_lossy(self) ==
    CASE self.n.v = "PosInt" -> Some(U64AsI64(self.n.u))
      [] self.n.v = "NegInt" -> Some(self.n.i)
      [] OTHER -> None

as_i64(self) ==
    CASE self.n.v = "PosInt" ->
            IF LLe(self.n.u, I64Max) THEN Some(U64AsI64(self.n.u)) ELSE None
      [] self.n.v = "NegInt" -> Some(self.n.i)
      [] OTHER -> None

is_f64(self) == self.n.v = "Float"

is_u64(self) == self.n.v = "PosInt"

is_i64_any_int(self) ==
    CASE self.n.v = "PosInt" -> TRUE
      [] self.n.v = "NegInt" -> TRUE
      [] OTHER -> FALSE

is_i64(self) ==
    CASE self.n.v = "PosInt" -> LLe(self.n.u, I64Max)
      [] self.n.v = "NegInt" -> TRUE
      [] OTHER -> FALSE

\* impl PartialEq for N, and Number's derived PartialEq over its one field.
N_eq(self, other) ==
    CASE self.v = "PosInt" /\ other.v = "PosInt" -> self.u = other.u
      [] self.v = "NegInt" /\ other.v = "NegInt" -> self.i = other.i
      [] self.v = "Float" /\ other.v = "Float" -> F64Eq(self.f, other.f)
      [] OTHER -> FALSE

Number_eq(self, other) == N_eq(self.n, other.n)

\* impl Hash for N: the sequence of 64-bit words written to the Hasher.
N_hash_raw_bits(self) ==
    CASE self.v = "PosInt" -> <<self.u>>
      [] self.v = "NegInt" -> <<I64AsU64(self.i)>>
      [] OTHER -> <<self.f>>

N_hash(self) ==
    CASE self.v = "PosInt" -> <<self.u>>
      [] self.v = "NegInt" -> <<I64AsU64(self.i)>>
      [] OTHER -> IF F64Eq(self.f, PosZeroBits) THEN <<PosZeroBits>> ELSE <<self.f>>

Number_hash(self) == N_hash(self.n)

From_u64(val) == Number(PosInt(val))

From_i64(val) == Number(NegInt(val))

From_f64(val) == Number(Float(val))

-----------------------------------------------------------------------------
(* Value.                                                                  *)

Null == [t |-> "Null"]
Bool(x) == [t |-> "Bool", b |-> x]
VNumber(x) == [t |-> "Number", n |-> x]
Str(x) == [t |-> "Str", s |-> x]
Array(x) == [t |-> "Array", a |-> x]
Object(x) == [t |-> "Object", o |-> x]

Value_is_i64(self) == IF self.t = "Number" THEN is_i64(self.n) ELSE FALSE

Value_is_u64(self) == IF self.t = "Number" THEN is_u64(self.n) ELSE FALSE

Value_is_f64(self) == IF self.t = "Number" THEN is_f64(self.n) ELSE FALSE

Value_as_i64(self) == IF self.t = "Number" THEN as_i64(self.n) ELSE None

Value_as_u64(self) == IF self.t = "Number" THEN as_u64(self.n) ELSE None

-----------------------------------------------------------------------------
(* References into a Value tree, and Value::get.                           *)

\* A node of the tree by its path from the root: the 1-based position of
\* the element or pair taken at each level.
NodeRef(path) == [ref |-> "node", path |-> path]

\* A reference to the static NULL of Value::get.
NullRef == [ref |-> "NULL"]

\* The call did not return: the thread panicked.
Panicked == [ref |-> "PANIC"]

\* static NULL: Value = Value::Null
NULL == Null

RECURSIVE At(_, _)
At(v, path) ==
    IF path = <<>> THEN v
    ELSE IF v.t = "Array" THEN At(v.a[Head(path)], Tail(path))
    ELSE At(v.o[Head(path)][2], Tail(path))

RECURSIVE ValidPath(_, _)
ValidPath(v, path) ==
    IF path = <<>> THEN TRUE
    ELSE IF v.t = "Array"
         THEN Head(path) \in 1..Len(v.a) /\ ValidPath(v.a[Head(path)], Tail(path))
    ELSE IF v.t = "Object"
         THEN Head(path) \in 1..Len(v.o) /\ ValidPath(v.o[Head(path)][2], Tail(path))
    ELSE FALSE

Deref(root, r) == IF r.ref = "NULL" THEN NULL ELSE At(root, r.path)

\* The two path components: a position (usize) and a key (&str).
Position(i) == [ix |-> "position", i |-> i]
Key(k) == [ix |-> "key", k |-> k]

\* Index::index_into for usize: Vec::get on an Array, None on anything else.
index_into_usize(root, self, i) ==
    LET v == Deref(root, self)
    IN  IF v.t = "Array" /\ i < Len(v.a)
        THEN Some(NodeRef(self.path \o <<i + 1>>))
        ELSE None

\* Index::index_into for str: the first pair of an Object whose key is
\* equal, None on anything else.
index_into_str(root, self, k) ==
    LET v == Deref(root, self)
    IN  IF v.t = "Object" /\ \E j \in 1..Len(v.o) : v.o[j][1] = k
        THEN LET first == CHOOSE j \in 1..Len(v.o) :
                            /\ v.o[j][1] = k
                            /\ \A h \in 1..(j - 1) : v.o[h][1] # k
             IN  Some(NodeRef(self.path \o <<first>>))
        ELSE None

index_into(root, self, index) ==
    IF index.ix = "position"
    THEN index_into_usize(root, self, index.i)
    ELSE index_into_str(root, self, index.k)

\* index.index_into(self).unwrap()
get_unwrap(root, self, index) ==
    LET r == index_into(root, self, index)
    IN  IF r.some THEN r.val ELSE Panicked

\* index.index_into(self).unwrap_or(self)
get_or_self(root, self, index) ==
    LET r == index_into(root, self, index)
    IN  IF r.some THEN r.val ELSE self

\* &NULL whatever the index finds
get_null(root, self, index) == NullRef

\* Value::get
get(root, self, index) ==
    LET r == index_into(root, self, index)
    IN  IF r.some THEN r.val ELSE NullRef

-----------------------------------------------------------------------------
(* serde_json's owned Value, and the conversions into it.                  *)

JNull == [j |-> "Null"]
JBool(x) == [j |-> "Bool", b |-> x]
JNumber(x) == [j |-> "Number", n |-> x]
JString(x) == [j |-> "String", s |-> x]
JArray(x) == [j |-> "Array", a |-> x]
\* A Map<String, Value> as the sequence of its entries in iteration order.
JObject(x) == [j |-> "Object", m |-> x]

\* The conversion did not return: unwrap() on None panicked.
JPanic == [j |-> "PANIC"]

\* u64 into serde_json's Number: a PosInt.
serde_from_u64(u) == [sn |-> PosInt(u)]

\* i64 into serde_json's Number: a NegInt below zero, a PosInt otherwise.
serde_from_i64(i) ==
    IF I64Negative(i) THEN [sn |-> NegInt(i)] ELSE [sn |-> PosInt(I64AsU64(i))]

\* serde_json::value::Number::from_f64: None unless finite.
serde_from_f64(f) == IF F64IsFinite(f) THEN Some([sn |-> Float(f)]) ELSE None

\* N::Float(n) => from_f64(n).unwrap_or(0.into())
Number_into_or_zero(num) ==
    CASE num.n.v = "PosInt" -> serde_from_u64(num.n.u)
      [] num.n.v = "NegInt" -> serde_from_i64(num.n.i)
      [] OTHER -> IF serde_from_f64(num.n.f).some
                  THEN serde_from_f64(num.n.f).val
                  ELSE serde_from_u64(ZeroL)

\* impl From<Number> for serde_json::value::Number
Number_into(num) ==
    CASE num.n.v = "PosInt" -> serde_from_u64(num.n.u)
      [] num.n.v = "NegInt" -> serde_from_i64(num.n.i)
      [] OTHER -> IF serde_from_f64(num.n.f).some
                  THEN serde_from_f64(num.n.f).val
                  ELSE JPanic

\* The byte-wise order of String, on the one-byte keys the model uses.
KeyByte(k) ==
    CASE k = "a" -> 97
      [] k = "b" -> 98
      [] k = "x" -> 120
      [] k = "y" -> 121

StrLt(k1, k2) == KeyByte(k1) < KeyByte(k2)

\* Map::insert: an entry with the key keeps its place and takes the new
\* value; a new key goes to its sorted place (BTreeMap, the default) or to
\* the end (IndexMap, with serde_json's preserve_order feature).
MapInsert(m, k, v, po) ==
    IF \E j \in 1..Len(m) : m[j][1] = k
    THEN [j \in 1..Len(m) |-> IF m[j][1] = k THEN <<k, v>> ELSE m[j]]
    ELSE IF po THEN Append(m, <<k, v>>)
    ELSE LET n == Cardinality({j \in 1..Len(m) : StrLt(m[j][1], k)})
         IN  SubSeq(m, 1, n) \o << <<k, v>> >> \o SubSeq(m, n + 1, Len(m))

\* collect() into Map<String, Value>: the first n pairs inserted in turn.
RECURSIVE MapCollect(_, _, _)
MapCollect(pairs, n, po) ==
    IF n = 0 THEN <<>>
    ELSE MapInsert(MapCollect(pairs, n - 1, po), pairs[n][1], pairs[n][2], po)

Reverse(s) == [i \in 1..Len(s) |-> s[Len(s) + 1 - i]]

\* vals.into_iter().rev().map(..).collect()
CollectArrayReversed(elems) == JArray(Reverse(elems))

\* vals.into_iter().map(|val| val.into()).collect()
CollectArray(elems) == JArray(elems)

\* impl From<Value> for serde_json::Value; po: the build has preserve_order.
RECURSIVE Value_into(_, _)
Value_into(val, po) ==
    CASE val.t = "Null" -> JNull
      [] val.t = "Bool" -> JBool(val.b)
      [] val.t = "Number" ->
            LET n == Number_into(val.n)
            IN  IF n = JPanic THEN JPanic ELSE JNumber(n)
      [] val.t = "Str" -> JString(val.s)
      [] val.t = "Array" ->
            LET elems == [i \in 1..Len(val.a) |-> Value_into(val.a[i], po)]
            IN  IF \E i \in 1..Len(elems) : elems[i] = JPanic
                THEN JPanic
                ELSE CollectArray(elems)
      [] val.t = "Object" ->
            LET pairs == [i \in 1..Len(val.o) |->
                            <<val.o[i][1], Value_into(val.o[i][2], po)>>]
            IN  IF \E i \in 1..Len(pairs) : pairs[i][2] = JPanic
                THEN JPanic
                ELSE JObject(MapCollect(pairs, Len(pairs), po))

-----------------------------------------------------------------------------
(* The literal texts of the Debug rendering.                               *)

LIT_NaN == <<"N", "a", "N">>
LIT_inf == <<"i", "n", "f">>
LIT_PosInt == <<"P", "o", "s", "I", "n", "t">>
LIT_NegInt == <<"N", "e", "g", "I", "n", "t">>
LIT_Float == <<"F", "l", "o", "a", "t">>
LIT_NumberOpen == <<"N", "u", "m", "b", "e", "r", "(">>
LIT_Null == <<"N", "u", "l", "l">>
LIT_BoolOpen == <<"B", "o", "o", "l", "(">>
LIT_true == <<"t", "r", "u", "e">>
LIT_false == <<"f", "a", "l", "s", "e">>
LIT_StrOpen == <<"S", "t", "r", "(">>
LIT_ArraySp == <<"A", "r", "r", "a", "y", " ">>
LIT_ObjectSp == <<"O", "b", "j", "e", "c", "t", " ">>

-----------------------------------------------------------------------------
(* impl Debug for Value.  A text is a sequence of one-character strings.   *)

Digit(d) == <<"0", "1", "2", "3", "4", "5", "6", "7", "8", "9">>[d + 1]

RECURSIVE NatDigits(_)
NatDigits(n) ==
    IF n < 10 THEN <<Digit(n)>> ELSE NatDigits(n \div 10) \o <<Digit(n % 10)>>

\* Quotient and remainder of a 64-bit value by ten, limb by limb.
DivMod10(x) ==
    LET c1 == x[1]
        c2 == (c1 % 10) * Base + x[2]
        c3 == (c2 % 10) * Base + x[3]
        c4 == (c3 % 10) * Base + x[4]
    IN  [q |-> <<c1 \div 10, c2 \div 10, c3 \div 10, c4 \div 10>>, r |-> c4 % 10]

RECURSIVE LimbDigits(_)
LimbDigits(x) ==
    IF x = ZeroL THEN <<>>
    ELSE LimbDigits(DivMod10(x).q) \o <<Digit(DivMod10(x).r)>>

\* {:?} of a u64: its decimal digits.
U64Debug(x) == IF x = ZeroL THEN <<"0">> ELSE LimbDigits(x)

\* {:?} of an i64: a minus sign below zero, then the digits.
I64Debug(i) == (IF i.neg THEN <<"-">> ELSE <<>>) \o U64Debug(i.mag)

\* The floats whose shortest decimal form the model computes: NaN, the
\* infinities, the zeros, and the multiples of 1/16 from 1/16 up to 2^26
\* with at most 21 significant bits.
F64Sixteenths(f) ==
    LET e == F64Exp(f) - 1023
        m == (2 ^ 20) + (f[1] % 16) * Base + f[2]
    IN  IF e >= 16 THEN m * (2 ^ (e - 16)) ELSE m \div (2 ^ (16 - e))

F64Renderable(f) ==
    \/ ~F64IsFinite(f)
    \/ F64IsZero(f)
    \/ /\ f[3] = 0
       /\ f[4] = 0
       /\ F64Exp(f) \in 1019..1048
       /\ LET e == F64Exp(f) - 1023
              m == (2 ^ 20) + (f[1] % 16) * Base + f[2]
          IN  e < 16 => m % (2 ^ (16 - e)) = 0

\* The decimal digits of k/16 after the point: at least one, no trailing zero.
FracDigits(k) ==
    LET d == k * 625
        all == <<Digit(d \div 1000), Digit((d \div 100) % 10),
                 Digit((d \div 10) % 10), Digit(d % 10)>>
        keep == IF d % 1000 = 0 THEN 1
                ELSE IF d % 100 = 0 THEN 2
                ELSE IF d % 10 = 0 THEN 3 ELSE 4
    IN  SubSeq(all, 1, keep)

\* {:?} of an f64: NaN, inf, -inf, or the sign and the shortest decimal
\* form that reads back as the same float, with at least one digit after
\* the point.
F64Debug(f) ==
    IF F64IsNan(f) THEN LIT_NaN
    ELSE IF ~F64IsFinite(f)
         THEN (IF F64SignBit(f) THEN <<"-">> ELSE <<>>) \o LIT_inf
    ELSE (IF F64SignBit(f) THEN <<"-">> ELSE <<>>) \o
         (IF F64IsZero(f) THEN <<"0", ".", "0">>
          ELSE NatDigits(F64Sixteenths(f) \div 16) \o <<".">>
                  \o FracDigits(F64Sixteenths(f) % 16))

\* The characters of the strings the model uses.
Chars(str) ==
    CASE str = "z" -> <<"z">>
      [] str = "zz" -> <<"z", "z">>
      [] str = "5" -> <<"5">>
      [] str = "a" -> <<"a">>
      [] str = "b" -> <<"b">>
      [] str = "x" -> <<"x">>
      [] str = "y" -> <<"y">>
      [] str = "PosInt" -> LIT_PosInt
      [] str = "NegInt" -> LIT_NegInt
      [] str = "Float" -> LIT_Float

RECURSIVE Escaped(_)
Escaped(cs) ==
    IF cs = <<>> THEN <<>>
    ELSE (IF Head(cs) \in {"\"", "\\"} THEN <<"\\", Head(cs)>> ELSE <<Head(cs)>>)
            \o Escaped(Tail(cs))

\* {:?} of a str: quoted, with quotes and backslashes escaped.
StrDebug(str) == <<"\"">> \o Escaped(Chars(str)) \o <<"\"">>

\* Debug of a slice: the items between brackets, separated by ", ".
RECURSIVE Joined(_)
Joined(items) ==
    IF items = <<>> THEN <<>>
    ELSE IF Len(items) = 1 THEN items[1]
    ELSE items[1] \o <<",", " ">> \o Joined(Tail(items))

ListDebug(items) == <<"[">> \o Joined(items) \o <<"]">>

\* Debug of a pair: (key, value).
TupleDebug(x, y) == <<"(">> \o x \o <<",", " ">> \o y \o <<")">>

\* The held primitive written with {:?}.
NumeralDebug(number) ==
    CASE number.n.v = "PosInt" -> U64Debug(number.n.u)
      [] number.n.v = "NegInt" -> I64Debug(number.n.i)
      [] OTHER -> F64Debug(number.n.f)

\* N::PosInt(n) => write!(formatter, "Number(PosInt({:?}))", n), and so on
fmt_Number_named(number) ==
    LIT_NumberOpen \o Chars(number.n.v) \o <<"(">> \o NumeralDebug(number) \o <<")", ")">>

\* The Value::Number arm of fmt: write!(formatter, "Number({:?})", n)
fmt_Number(number) == LIT_NumberOpen \o NumeralDebug(number) \o <<")">>

\* impl Debug for Value: fmt
RECURSIVE fmt(_)
fmt(self) ==
    CASE self.t = "Null" -> LIT_Null
      [] self.t = "Bool" ->
            LIT_BoolOpen \o (IF self.b THEN LIT_true ELSE LIT_false) \o <<")">>
      [] self.t = "Number" -> fmt_Number(self.n)
      [] self.t = "Str" -> LIT_StrOpen \o StrDebug(self.s) \o <<")">>
      [] self.t = "Array" ->
            LIT_ArraySp \o ListDebug([i \in 1..Len(self.a) |-> fmt(self.a[i])])
      [] self.t = "Object" ->
            LIT_ObjectSp \o ListDebug([i \in 1..Len(self.o) |->
                TupleDebug(StrDebug(self.o[i][1]), fmt(self.o[i][2]))])

-----------------------------------------------------------------------------
(* The trees the deserializer hands over.                                  *)

MaxLen == 2
MaxDepth == 2

Keys == {"a", "b"}

SeqsUpTo(S, n) == UNION {[1..k -> S] : k \in 0..n}

Containers(S, n) ==
    {Array(s) : s \in SeqsUpTo(S, n)} \cup {Object(s) : s \in SeqsUpTo(Keys \X S, n)}

\* Containers of up to MaxLen leaves; each further level wraps a tree as
\* the only element of an Array or the only pair of an Object.
RECURSIVE Trees(_, _)
Trees(leaves, d) ==
    IF d = 0 THEN leaves
    ELSE IF d = 1 THEN leaves \cup Containers(leaves, MaxLen)
    ELSE LET T == Trees(leaves, d - 1) IN T \cup Containers(T, 1)

\* The document of the crate's examples: {"x": {"y": ["z", "zz"]}}
ExampleDoc ==
    Object(<< <<"x", Object(<< <<"y", Array(<<Str("z"), Str("zz")>>)>> >>)>> >>)

NavLeaves == {Null, Bool(TRUE), VNumber(From_u64(<<0, 0, 0, 1>>)), Str("z")}

NavDocs == Trees(NavLeaves, MaxDepth) \cup {ExampleDoc}

NavKeys == Keys \cup {"x", "y"}

-----------------------------------------------------------------------------
(* Inputs of the Number conversions.                                       *)

TopLimbs == {0, HalfBase - 1, HalfBase, Base - 1}

U64Max == <<Base - 1, Base - 1, Base - 1, Base - 1>>

\* 0, 1, 123, i64::MAX, i64::MAX + 1, u64::MAX and patterns around them.
U64Inputs ==
    {<<t, 0, 0, l>> : t \in TopLimbs, l \in {0, 1, 123}} \cup {I64Max, U64Max}

\* i64::MIN, -123, -1, 0, 1, 123, i64::MAX and values between them.
I64Inputs ==
    {SInt(s, m) : s \in BOOLEAN, m \in {x \in U64Inputs : LLe(x, I64Max)}}
        \cup {SInt(TRUE, <<HalfBase, 0, 0, 0>>)}

\* The top limbs of +0.0, -0.0, 1.0, 5.0, -1.5, +inf, -inf, NaN.
F64Tops == {0, HalfBase, 16368, 16404, 49144, 32752, 65520, 32760}

\* With the low bit set: subnormals, neighbours, and NaNs with a payload.
\* 123.5 is 0x405EE00000000000, 123.0 is 0x405EC00000000000, f64::MAX is
\* 0x7FEFFFFFFFFFFFFF.
F64Inputs ==
    {<<t, 0, 0, l>> : t \in F64Tops, l \in {0, 1}}
        \cup {<<16478, 57344, 0, 0>>, <<16478, 49152, 0, 0>>,
              <<32751, Base - 1, Base - 1, Base - 1>>}

\* Values that hold no Number.
OtherValues ==
    {Null, Bool(TRUE), Str("5"), Array(<<>>),
     Array(<<VNumber(From_u64(<<0, 0, 0, 5>>))>>), Object(<<>>)}

-----------------------------------------------------------------------------
(* The Number specification: a caller that builds Numbers through the      *)
(* public conversions and calls the accessors, == and hash on them.        *)

Slot(num, via, arg) == [num |-> num, via |-> via, arg |-> arg]

NoObs == [kind |-> "none"]

InitNum ==
    /\ a = Slot(From_u64(ZeroL), "u64", ZeroL)
    /\ b = Slot(From_u64(ZeroL), "u64", ZeroL)
    /\ obs = NoObs
    /\ doc = Null
    /\ cur = NodeRef(<<>>)
    /\ nav = NoObs
    /\ hit = FALSE
    /\ preserve_order = FALSE

Install(left, s) ==
    /\ IF left THEN a' = s /\ b' = b ELSE b' = s /\ a' = a
    /\ obs' = NoObs

NewFromU64 ==
    \E left \in BOOLEAN, val \in U64Inputs :
        Install(left, Slot(From_u64(val), "u64", val))

NewFromI64 ==
    \E left \in BOOLEAN, val \in I64Inputs :
        Install(left, Slot(From_i64(val), "i64", val))

NewFromF64 ==
    \E left \in BOOLEAN, val \in F64Inputs :
        Install(left, Slot(From_f64(val), "f64", val))

\* The Number methods, called on the Number of slot a.
QueryNumber ==
    /\ obs = NoObs
    /\ obs' = [kind |-> "number", subject |-> a.num,
               is_i64 |-> is_i64(a.num), is_u64 |-> is_u64(a.num),
               is_f64 |-> is_f64(a.num),
               as_i64 |-> as_i64(a.num), as_u64 |-> as_u64(a.num)]
    /\ UNCHANGED <<a, b>>

\* The Value methods, called on Value::Number of slot a or on another Value.
QueryValue ==
    /\ obs = NoObs
    /\ \E self \in {VNumber(a.num)} \cup OtherValues :
          obs' = [kind |-> "value", subject |-> self,
                  is_i64 |-> Value_is_i64(self), is_u64 |-> Value_is_u64(self),
                  is_f64 |-> Value_is_f64(self),
                  as_i64 |-> Value_as_i64(self), as_u64 |-> Value_as_u64(self)]
    /\ UNCHANGED <<a, b>>

\* a == b, and both fed to the same Hasher type.
Compare ==
    /\ obs = NoObs
    /\ obs' = [kind |-> "cmp", lhs |-> a, rhs |-> b,
               eq |-> Number_eq(a.num, b.num),
               hl |-> Number_hash(a.num), hr |-> Number_hash(b.num)]
    /\ UNCHANGED <<a, b>>

NextNum ==
    \/ NewFromU64 /\ UNCHANGED <<navVars, preserve_order>>
    \/ NewFromI64 /\ UNCHANGED <<navVars, preserve_order>>
    \/ NewFromF64 /\ UNCHANGED <<navVars, preserve_order>>
    \/ QueryNumber /\ UNCHANGED <<navVars, preserve_order>>
    \/ QueryValue /\ UNCHANGED <<navVars, preserve_order>>
    \/ Compare /\ UNCHANGED <<navVars, preserve_order>>

SpecNum == InitNum /\ [][NextNum]_vars

-----------------------------------------------------------------------------
(* Claims about Number.                                                    *)

\* The integer a Number holds is representable as an i64: -2^63 <= n < 2^63.
RepresentableI64(num) ==
    CASE num.n.v = "PosInt" -> LLt(num.n.u, <<HalfBase, 0, 0, 0>>)
      [] num.n.v = "NegInt" ->
            IF num.n.i.neg THEN LLe(num.n.i.mag, <<HalfBase, 0, 0, 0>>)
                           ELSE LLt(num.n.i.mag, <<HalfBase, 0, 0, 0>>)
      [] OTHER -> FALSE

ExactlyOne(p, q, r) ==
    (p /\ ~q /\ ~r) \/ (~p /\ q /\ ~r) \/ (~p /\ ~q /\ r)

\* C4: for every Number made by From<u64>, From<i64> or From<f64>, exactly
\* one of is_u64, variant-is-NegInt, is_f64 holds, and is_i64 is true iff
\* the held value is an integer representable as a signed 64-bit integer
\* (false for a PosInt above i64::MAX and for every Float).
C4_NumberPredicates ==
    obs.kind = "number" =>
        /\ ExactlyOne(obs.is_u64, obs.subject.n.v = "NegInt", obs.is_f64)
        /\ obs.is_i64 <=> RepresentableI64(obs.subject)
        /\ obs.subject.n.v = "Float" => ~obs.is_i64

C4_Witness ==
    /\ obs.kind = "number"
    /\ obs.subject.n.v = "PosInt"
    /\ LLt(I64Max, obs.subject.n.u)
    /\ obs.is_u64
    /\ ~obs.is_i64

\* The integer a Number holds, as a mathematical integer (no Float).
HeldInteger(num) ==
    IF num.n.v = "PosInt" THEN SInt(FALSE, num.n.u) ELSE num.n.i

\* C5: on every Value and every Number, is_i64 is true iff as_i64 is Some
\* and is_u64 is true iff as_u64 is Some; a Some holds the stored integer
\* unchanged; a Value that is no Number gives false and None four times.
C5_IsAsAgree ==
    obs.kind \in {"number", "value"} =>
        /\ obs.is_i64 <=> obs.as_i64.some
        /\ obs.is_u64 <=> obs.as_u64.some
        /\ LET num == IF obs.kind = "value" THEN obs.subject.n ELSE obs.subject
           IN  /\ obs.as_i64.some => obs.as_i64.val = HeldInteger(num)
               /\ obs.as_u64.some => SInt(FALSE, obs.as_u64.val) = HeldInteger(num)
        /\ (obs.kind = "value" /\ obs.subject.t # "Number") =>
              /\ ~obs.is_i64
              /\ ~obs.is_u64
              /\ obs.as_i64 = None
              /\ obs.as_u64 = None

C5_Witness ==
    /\ obs.kind = "value"
    /\ obs.subject.t = "Number"
    /\ obs.subject.n.n.v = "PosInt"
    /\ obs.subject.n.n.u = I64Max
    /\ obs.as_i64 = Some(SInt(FALSE, I64Max))
    /\ obs.is_i64

\* C6: a == b implies hash(a) == hash(b); Number::from(+0.0) and
\* Number::from(-0.0) are equal and both feed the bits of +0.0 to the
\* hasher; Numbers of different variants are never equal.
C6_HashEqConsistent ==
    obs.kind = "cmp" =>
        /\ obs.eq => obs.hl = obs.hr
        /\ obs.lhs.num.n.v # obs.rhs.num.n.v => ~obs.eq
        /\ (/\ obs.lhs.via = "f64"
            /\ obs.rhs.via = "f64"
            /\ {obs.lhs.arg, obs.rhs.arg} = {PosZeroBits, NegZeroBits}) =>
              /\ obs.eq
              /\ obs.hl = <<PosZeroBits>>
              /\ obs.hr = <<PosZeroBits>>

C6_Witness ==
    /\ obs.kind = "cmp"
    /\ obs.lhs.via = "f64"
    /\ obs.rhs.via = "f64"
    /\ obs.lhs.arg = PosZeroBits
    /\ obs.rhs.arg = NegZeroBits
    /\ obs.eq
    /\ obs.hl = obs.hr

\* C9: every Number reachable through the public constructors keeps the
\* data-model invariants: a NegInt is strictly negative, a Float is finite,
\* and Number::from of a non-negative i64 equals Number::from of the same
\* u64.
C9_ConstructedInvariants ==
    /\ \A s \in {a, b} :
          /\ s.num.n.v = "NegInt" => I64Negative(s.num.n.i)
          /\ s.num.n.v = "Float" => F64IsFinite(s.num.n.f)
    /\ (/\ obs.kind = "cmp"
        /\ obs.lhs.via = "i64"
        /\ obs.rhs.via = "u64"
        /\ ~I64Negative(obs.lhs.arg)
        /\ obs.lhs.arg.mag = obs.rhs.arg) => obs.eq

-----------------------------------------------------------------------------
(* The navigation specification: a caller chaining get through a tree.     *)

InitNav ==
    /\ doc \in NavDocs
    /\ cur = NodeRef(<<>>)
    /\ nav = NoObs
    /\ hit = FALSE
    /\ a = Slot(From_u64(ZeroL), "u64", ZeroL)
    /\ b = Slot(From_u64(ZeroL), "u64", ZeroL)
    /\ obs = NoObs
    /\ preserve_order = FALSE

Step(index) ==
    /\ cur # Panicked
    /\ LET ret == get(doc, cur, index)
       IN  /\ nav' = [kind |-> "get", self |-> cur, index |-> index, ret |-> ret]
           /\ cur' = ret
           /\ hit' = (hit \/ ret = NullRef)
    /\ UNCHANGED doc

\* value.get(i)
GetPosition == \E i \in 0..(MaxLen + 1) : Step(Position(i))

\* value.get("k")
GetKey == \E k \in NavKeys : Step(Key(k))

\* The caller starts another chain at the root.
Restart ==
    /\ nav # NoObs
    /\ cur' = NodeRef(<<>>)
    /\ nav' = NoObs
    /\ hit' = FALSE
    /\ UNCHANGED doc

NextNav ==
    \/ GetPosition /\ UNCHANGED <<numVars, preserve_order>>
    \/ GetKey /\ UNCHANGED <<numVars, preserve_order>>
    \/ Restart /\ UNCHANGED <<numVars, preserve_order>>

SpecNav == InitNav /\ [][NextNav]_vars

-----------------------------------------------------------------------------
(* Claims about Value::get.                                                *)

\* C1: chained through any sequence of positions and keys, get never fails
\* or panics: each call returns a node contained in the tree or the shared
\* Null sentinel, and once a call of the chain has returned the sentinel
\* every later call of the chain returns Null.
C1_GetChainTotal ==
    /\ cur # Panicked
    /\ cur.ref = "node" => ValidPath(doc, cur.path)
    /\ cur.ref = "NULL" => Deref(doc, cur) = Null
    /\ hit => Deref(doc, cur) = Null

\* A chain that went through the sentinel twice: get("a").get("b") on the
\* example document.
C1_Witness ==
    /\ doc = ExampleDoc
    /\ hit
    /\ nav # NoObs
    /\ nav.self = NullRef
    /\ nav.index = Key("b")
    /\ cur = NullRef

\* C2: get(i) on an Array of length len returns exactly the element at
\* position i when 0 <= i < len and Null when i >= len (i = len included);
\* get(i) on a value that is no Array returns Null.
C2_GetPosition ==
    (nav # NoObs /\ nav.index.ix = "position") =>
        LET v == Deref(doc, nav.self)
            i == nav.index.i
        IN  IF v.t = "Array" /\ i < Len(v.a)
            THEN /\ nav.ret = NodeRef(nav.self.path \o <<i + 1>>)
                 /\ Deref(doc, nav.ret) = v.a[i + 1]
            ELSE /\ nav.ret = NullRef
                 /\ Deref(doc, nav.ret) = Null

\* The position equal to the length of a non-empty Array gave Null.
C2_Witness ==
    /\ nav # NoObs
    /\ nav.index.ix = "position"
    /\ Deref(doc, nav.self).t = "Array"
    /\ Len(Deref(doc, nav.self).a) = MaxLen
    /\ nav.index.i = MaxLen
    /\ nav.ret = NullRef

\* C3: get(k) on an Object returns the value of the first pair, in storage
\* order, whose key equals k, also when several pairs carry that key; Null
\* when no pair has the key; get(k) on a value that is no Object is Null.
C3_GetKey ==
    (nav # NoObs /\ nav.index.ix = "key") =>
        LET v == Deref(doc, nav.self)
            k == nav.index.k
        IN  IF v.t = "Object" /\ \E j \in 1..Len(v.o) : v.o[j][1] = k
            THEN \E j \in 1..Len(v.o) :
                    /\ v.o[j][1] = k
                    /\ \A h \in 1..(j - 1) : v.o[h][1] # k
                    /\ nav.ret = NodeRef(nav.self.path \o <<j>>)
                    /\ Deref(doc, nav.ret) = v.o[j][2]
            ELSE /\ nav.ret = NullRef
                 /\ Deref(doc, nav.ret) = Null

\* Two pairs carry the key with different values, and the first was given.
C3_Witness ==
    /\ nav # NoObs
    /\ nav.index.ix = "key"
    /\ LET v == Deref(doc, nav.self)
       IN  /\ v.t = "Object"
           /\ Len(v.o) = 2
           /\ v.o[1][1] = nav.index.k
           /\ v.o[2][1] = nav.index.k
           /\ v.o[1][2] # v.o[2][2]
           /\ Deref(doc, nav.ret) = v.o[1][2]
           /\ nav.ret = NodeRef(nav.self.path \o <<1>>)

-----------------------------------------------------------------------------
(* The conversion specification: a tree is handed over and converted into  *)
(* serde_json's owned Value, under either build of serde_json's Map.       *)

\* 1.5 is 0x3FF8000000000000, a NaN is 0x7FF8000000000000.
ConvLeaves ==
    {Null, Str("z"), VNumber(From_i64(SInt(TRUE, <<0, 0, 0, 1>>))),
     VNumber(From_f64(<<16376, 0, 0, 0>>)), VNumber(From_f64(<<32760, 0, 0, 0>>))}

ConvNumbers ==
    {From_u64(x) : x \in U64Inputs} \cup {From_i64(x) : x \in I64Inputs}
        \cup {From_f64(x) : x \in F64Inputs}

ConvDocs ==
    Trees(ConvLeaves, MaxDepth) \cup {VNumber(n) : n \in ConvNumbers}
        \cup {ExampleDoc, Bool(TRUE)}

InitConv ==
    /\ doc \in ConvDocs
    /\ preserve_order \in BOOLEAN
    /\ obs = NoObs
    /\ cur = NodeRef(<<>>)
    /\ nav = NoObs
    /\ hit = FALSE
    /\ a = Slot(From_u64(ZeroL), "u64", ZeroL)
    /\ b = Slot(From_u64(ZeroL), "u64", ZeroL)

\* serde_json::Value::from(doc)
IntoValue ==
    /\ obs = NoObs
    /\ obs' = [kind |-> "into", result |-> Value_into(doc, preserve_order)]
    /\ UNCHANGED <<a, b, navVars, preserve_order>>

\* serde_json::value::Number::from(number)
IntoNumber ==
    /\ obs = NoObs
    /\ doc.t = "Number"
    /\ obs' = [kind |-> "into_number", result |-> Number_into(doc.n)]
    /\ UNCHANGED <<a, b, navVars, preserve_order>>

NextConv ==
    \/ IntoValue
    \/ IntoNumber

SpecConv == InitConv /\ [][NextConv]_vars

-----------------------------------------------------------------------------
(* Claims about the owned conversion.                                      *)

\* The owned number holds the value of the borrowed one: the same integer,
\* or the same float.
SameNumber(num, owned) ==
    CASE num.n.v = "PosInt" -> owned.sn = PosInt(num.n.u)
      [] num.n.v = "NegInt" ->
            \/ owned.sn = NegInt(num.n.i)
            \/ /\ owned.sn.v = "PosInt"
               /\ SInt(FALSE, owned.sn.u) = num.n.i
      [] OTHER -> owned.sn = Float(num.n.f)

LeafConverted(val, j) ==
    CASE val.t = "Null" -> j = JNull
      [] val.t = "Bool" -> j = JBool(val.b)
      [] val.t = "Number" -> j.j = "Number" /\ SameNumber(val.n, j.n)
      [] val.t = "Str" -> j = JString(val.s)
      [] OTHER -> FALSE

\* The claim as written: every Array and every Object becomes a container
\* of the same length, holding the converted elements, or the pairs with
\* their keys, in the order of the source.
RECURSIVE StructurePreserved(_, _)
StructurePreserved(val, j) ==
    CASE val.t = "Array" ->
            /\ j.j = "Array"
            /\ Len(j.a) = Len(val.a)
            /\ \A i \in 1..Len(val.a) : StructurePreserved(val.a[i], j.a[i])
      [] val.t = "Object" ->
            /\ j.j = "Object"
            /\ Len(j.m) = Len(val.o)
            /\ \A i \in 1..Len(val.o) :
                  /\ j.m[i][1] = val.o[i][1]
                  /\ StructurePreserved(val.o[i][2], j.m[i][2])
      [] OTHER -> LeafConverted(val, j)

KeysOf(o) == {o[i][1] : i \in 1..Len(o)}
FirstAt(o, k) == CHOOSE i \in 1..Len(o) :
                    o[i][1] = k /\ \A h \in 1..(i - 1) : o[h][1] # k
LastAt(o, k) == CHOOSE i \in 1..Len(o) :
                    o[i][1] = k /\ \A h \in (i + 1)..Len(o) : o[h][1] # k

\* What the map allows: an Array as above; an Object becomes one entry per
\* distinct key, with the converted value of the last pair that carries
\* the key, in ascending key order (default build) or in the order of the
\* keys' first pairs (preserve_order).
RECURSIVE MapConverted(_, _, _)
MapConverted(val, j, po) ==
    CASE val.t = "Array" ->
            /\ j.j = "Array"
            /\ Len(j.a) = Len(val.a)
            /\ \A i \in 1..Len(val.a) : MapConverted(val.a[i], j.a[i], po)
      [] val.t = "Object" ->
            /\ j.j = "Object"
            /\ Len(j.m) = Cardinality(KeysOf(val.o))
            /\ KeysOf(j.m) = KeysOf(val.o)
            /\ \A e \in 1..Len(j.m) :
                  MapConverted(val.o[LastAt(val.o, j.m[e][1])][2], j.m[e][2], po)
            /\ \A e, f \in 1..Len(j.m) :
                  e < f => IF po
                           THEN FirstAt(val.o, j.m[e][1]) < FirstAt(val.o, j.m[f][1])
                           ELSE StrLt(j.m[e][1], j.m[f][1])
      [] OTHER -> LeafConverted(val, j)

\* No Object of the tree repeats a key, and (unless po) each lists its keys
\* in ascending order.
RECURSIVE PlainKeys(_, _)
PlainKeys(val, po) ==
    CASE val.t = "Array" -> \A i \in 1..Len(val.a) : PlainKeys(val.a[i], po)
      [] val.t = "Object" ->
            /\ \A i, h \in 1..Len(val.o) :
                  i < h => /\ val.o[i][1] # val.o[h][1]
                           /\ po \/ StrLt(val.o[i][1], val.o[h][1])
            /\ \A i \in 1..Len(val.o) : PlainKeys(val.o[i][2], po)
      [] OTHER -> TRUE

\* C7, as claimed: the conversion keeps, at every level, the n elements of
\* an Array in order and the n pairs of an Object in source order, also
\* under duplicate keys and keys that are not sorted.
C7_Original ==
    (obs.kind = "into" /\ obs.result # JPanic) =>
        StructurePreserved(doc, obs.result)

\* C7, amended: Arrays keep their n elements in order at every level; an
\* Object becomes a map with one entry per distinct key, holding an owned
\* copy of the key and the converted value of the last pair with that key,
\* in the map's key order; the n pairs are kept in source order when the
\* keys are distinct and (in the default build) ascending.
C7_MapConversion ==
    (obs.kind = "into" /\ obs.result # JPanic) =>
        /\ MapConverted(doc, obs.result, preserve_order)
        /\ PlainKeys(doc, preserve_order) => StructurePreserved(doc, obs.result)

\* An Object with one key twice and two values became a one-entry map
\* holding the second value.
C7_Witness ==
    /\ obs.kind = "into"
    /\ doc.t = "Object"
    /\ Len(doc.o) = 2
    /\ doc.o[1][1] = doc.o[2][1]
    /\ doc.o[1][2] = Null
    /\ doc.o[2][2] = Str("z")
    /\ obs.result = JObject(<< <<doc.o[1][1], JString("z")>> >>)

RECURSIVE HasNonFinite(_)
HasNonFinite(val) ==
    CASE val.t = "Number" -> val.n.n.v = "Float" /\ ~F64IsFinite(val.n.n.f)
      [] val.t = "Array" -> \E i \in 1..Len(val.a) : HasNonFinite(val.a[i])
      [] val.t = "Object" -> \E i \in 1..Len(val.o) : HasNonFinite(val.o[i][2])
      [] OTHER -> FALSE

RECURSIVE NumbersOf(_)
NumbersOf(val) ==
    CASE val.t = "Number" -> {val.n}
      [] val.t = "Array" -> UNION {NumbersOf(val.a[i]) : i \in 1..Len(val.a)}
      [] val.t = "Object" -> UNION {NumbersOf(val.o[i][2]) : i \in 1..Len(val.o)}
      [] OTHER -> {}

RECURSIVE OwnedNumbersOf(_)
OwnedNumbersOf(j) ==
    CASE j.j = "Number" -> {j.n}
      [] j.j = "Array" -> UNION {OwnedNumbersOf(j.a[i]) : i \in 1..Len(j.a)}
      [] j.j = "Object" -> UNION {OwnedNumbersOf(j.m[i][2]) : i \in 1..Len(j.m)}
      [] OTHER -> {}

\* C10: the conversion of a Number never substitutes a value: a PosInt or
\* NegInt becomes the same integer, a finite Float the same float, and a
\* Float that is NaN or infinite ends the conversion in a panic, at any
\* depth of the tree that is converted.
C10_NoSilentSubstitution ==
    /\ obs.kind = "into_number" =>
          IF HasNonFinite(doc)
          THEN obs.result = JPanic
          ELSE obs.result # JPanic /\ SameNumber(doc.n, obs.result)
    /\ obs.kind = "into" =>
          /\ obs.result = JPanic <=> HasNonFinite(doc)
          /\ obs.result # JPanic =>
                \A owned \in OwnedNumbersOf(obs.result) :
                    \E num \in NumbersOf(doc) : SameNumber(num, owned)

\* A NaN two levels down made the conversion of the tree panic.
C10_Witness ==
    /\ obs.kind = "into"
    /\ obs.result = JPanic
    /\ doc.t = "Array"
    /\ Len(doc.a) = 1
    /\ doc.a[1].t = "Object"
    /\ Len(doc.a[1].o) = 2
    /\ doc.a[1].o[1][2] = Null
    /\ HasNonFinite(doc.a[1].o[2][2])

-----------------------------------------------------------------------------
(* The rendering specification: a tree, or two Numbers, written with {:?}. *)

FmtLeaves ==
    {Null, Bool(TRUE), Str("z"), VNumber(From_u64(<<0, 0, 0, 123>>)),
     VNumber(From_i64(SInt(TRUE, <<0, 0, 0, 123>>))),
     VNumber(From_f64(<<16478, 57344, 0, 0>>))}

FmtDocs == Trees(FmtLeaves, MaxDepth) \cup {ExampleDoc}

FmtSlots ==
    {Slot(From_u64(x), "u64", x) : x \in U64Inputs}
        \cup {Slot(From_i64(x), "i64", x) : x \in I64Inputs}
        \cup {Slot(From_f64(x), "f64", x) : x \in {f \in F64Inputs : F64Renderable(f)}}

InitFmt ==
    /\ \/ /\ doc \in FmtDocs
          /\ a = Slot(From_u64(ZeroL), "u64", ZeroL)
          /\ b = Slot(From_u64(ZeroL), "u64", ZeroL)
       \/ /\ a \in FmtSlots
          /\ b \in FmtSlots
          /\ doc = VNumber(a.num)
    /\ obs = NoObs
    /\ cur = NodeRef(<<>>)
    /\ nav = NoObs
    /\ hit = FALSE
    /\ preserve_order = FALSE

\* format!("{:?}", doc)
FormatValue ==
    /\ obs = NoObs
    /\ obs' = [kind |-> "fmt", text |-> fmt(doc)]
    /\ UNCHANGED <<a, b, navVars, preserve_order>>

\* format!("{:?}", Value::Number(a)) and format!("{:?}", Value::Number(b))
FormatNumbers ==
    /\ obs = NoObs
    /\ obs' = [kind |-> "fmt2", ta |-> fmt(VNumber(a.num)), tb |-> fmt(VNumber(b.num))]
    /\ UNCHANGED <<a, b, navVars, preserve_order>>

NextFmt ==
    \/ FormatValue
    \/ FormatNumbers

SpecFmt == InitFmt /\ [][NextFmt]_vars

-----------------------------------------------------------------------------
(* Claims about the Debug rendering.                                       *)

OccursAt(text, pat, p) ==
    /\ p + Len(pat) - 1 <= Len(text)
    /\ SubSeq(text, p, p + Len(pat) - 1) = pat

Contains(text, pat) == \E p \in 1..Len(text) : OccursAt(text, pat, p)

\* The pieces occur in the text one after the other, without overlap.
RECURSIVE InOrderFrom(_, _, _)
InOrderFrom(text, pieces, from) ==
    IF pieces = <<>> THEN TRUE
    ELSE \E p \in from..Len(text) :
            /\ OccursAt(text, Head(pieces), p)
            /\ \A q \in from..(p - 1) : ~OccursAt(text, Head(pieces), q)
            /\ InOrderFrom(text, Tail(pieces), p + Len(Head(pieces)))

\* What a container must show, in storage order: the rendering of each
\* element, and for an Object each quoted key before its value.
PiecesOf(val) ==
    CASE val.t = "Array" -> [i \in 1..Len(val.a) |-> fmt(val.a[i])]
      [] val.t = "Object" ->
            [i \in 1..(2 * Len(val.o)) |->
                IF i % 2 = 1 THEN StrDebug(val.o[(i + 1) \div 2][1])
                             ELSE fmt(val.o[i \div 2][2])]
      [] OTHER -> <<>>

IsInteger(num) == num.n.v \in {"PosInt", "NegInt"}

\* C8, as claimed: the rendering of a Number reveals, by name, which of
\* PosInt, NegInt and Float is held instead of one common numeric notation,
\* so that two Numbers of different sub-shapes never render to the same
\* text; Array and Object render their elements in storage order.
C8_Original ==
    /\ obs.kind = "fmt2" =>
          /\ a.num.n.v # b.num.n.v => obs.ta # obs.tb
          /\ Contains(obs.ta, Chars(a.num.n.v))
          /\ Contains(obs.tb, Chars(b.num.n.v))
    /\ obs.kind = "fmt" => InOrderFrom(obs.text, PiecesOf(doc), 1)

\* C8, amended: every Number is rendered in the one notation Number(<v>),
\* v being the {:?} text of the held u64, i64 or f64, and the text never
\* names the sub-shape; two Numbers of different sub-shapes render to
\* different texts except a PosInt and a NegInt that hold the same integer,
\* which render to the same text; Array and Object render their elements
\* in storage order.
C8_CommonNotation ==
    /\ obs.kind = "fmt2" =>
          /\ \A t \in {obs.ta, obs.tb} :
                /\ OccursAt(t, LIT_NumberOpen, 1)
                /\ t[Len(t)] = ")"
                /\ \A name \in {LIT_PosInt, LIT_NegInt, LIT_Float} : ~Contains(t, name)
          /\ a.num.n.v # b.num.n.v =>
                (obs.ta = obs.tb <=>
                    /\ IsInteger(a.num)
                    /\ IsInteger(b.num)
                    /\ HeldInteger(a.num) = HeldInteger(b.num))
    /\ obs.kind = "fmt" => InOrderFrom(obs.text, PiecesOf(doc), 1)

\* PosInt(123) and NegInt(123) were both rendered as Number(123).
C8_Witness ==
    /\ obs.kind = "fmt2"
    /\ a.num = Number(PosInt(<<0, 0, 0, 123>>))
    /\ b.num = Number(NegInt(SInt(FALSE, <<0, 0, 0, 123>>)))
    /\ obs.ta = LIT_NumberOpen \o <<"1", "2", "3", ")">>
    /\ obs.tb = obs.ta

=============================================================================
